---- MODULE Spec2Model ----
(***************************************************************************)
(* Model of the request/response correlation engine of nx-request-api:     *)
(* SwitchBackend (backend.ts), its inbound dispatch handler, invoke and    *)
(* the transport it talks to.                                              *)
(*                                                                         *)
(* A request is one call of SwitchBackend.invoke; it is named by its       *)
(* position r in `requests`.  Each call owns a closure (first_response)    *)
(* and a promise (settled, payload, reason).  The registry `callbacks` is  *)
(* the Map<string, callback> of the engine: a key maps to the closure      *)
(* registered under it.  The host emits inbound events onto the shared     *)
(* channel; the event loop hands them one by one to the dispatch handler.  *)
(***************************************************************************)
EXTENDS Integers, Sequences, FiniteSets, TLC

\* ---------------------------------------------------------------- bounds
\* number of invoke calls in one run
MaxReq == 2
\* number of chunks the host sends in answer to one request
MaxChunks == 2
\* events in flight on the shared channel
MaxChannel == 1
\* calls of the public constructor of SwitchBackend in one process
MaxEngines == 2

\* ------------------------------------------------------------ value sets
\* the identifier generated for the envelope of the i-th invoke (Message.id):
\* a fresh one for each envelope
IdOf(i) == "id" \o ToString(i)
Ids == {IdOf(i) : i \in 1..MaxReq}
\* the reserved key of the progress channel
PROGRESS == "progress"
\* an identifier no request ever carried
STRAY == "stray"
\* `response.id` of a decoded value that has no id field
UNDEFINED == "undefined"
\* payload texts of chunks
Msgs == {"ab", "cd"}
\* a message text that Progress.from accepts
PROGRESS_JSON == "{progress}"
\* values of the optional boolean fields `more` and `ok` of an envelope
ABSENT == "absent"
MoreVals == {ABSENT, "true", "false"}
\* the engine never reads `ok`: the events of its specification leave it absent
OkVals == {ABSENT}

\* JSON values of `more` that are no boolean: null, and the number 0
NULL == "null"
ZERO == "0"
FramingMoreVals == MoreVals \cup {NULL, ZERO}
\* the values of `ok` a host reply carries for the messenger facade
FacadeOkVals == {ABSENT, "true", "false"}
\* the payload text of the replies of the facade's scenarios
FacadeMsgs == {"pong"}

\* An inbound event's data.  kind: "json" an object, "notjson" a text that
\* is no JSON, "null" the JSON text null, "noid" an object without id.
\* str: whether the decoded object converts to a string ("" + response);
\* an object whose toString field is not a function does not.
Data(kind, id, message, more, ok, str) ==
    [kind |-> kind, id |-> id, message |-> message, more |-> more, ok |-> ok, str |-> str]

\* chunks of a response with payload texts among msgs: they bear a request
\* identifier
ChunksWith(msgs, mores, oks) ==
    {Data("json", id, m, more, ok, TRUE) : id \in Ids, m \in msgs, more \in mores, ok \in oks}
ChunksOf(msgs) == ChunksWith(msgs, MoreVals, OkVals)
ChunkEvents == ChunksOf(Msgs)
\* events of the progress channel
ProgressEvents ==
    {Data("json", PROGRESS, m, ABSENT, ABSENT, str) : m \in {PROGRESS_JSON, "ab"}, str \in BOOLEAN}
\* an envelope bearing an identifier nobody registered
StrayEvents == {Data("json", STRAY, "ab", ABSENT, ABSENT, TRUE)}
\* payloads that do not decode to an envelope with an id
MalformedEvents ==
    {Data(k, UNDEFINED, "", ABSENT, ABSENT, TRUE) : k \in {"notjson", "null", "noid"}}
EventsOf(msgs) == ChunksOf(msgs) \cup ProgressEvents \cup StrayEvents \cup MalformedEvents
Events == EventsOf(Msgs)
\* the events with one payload text: what is eventually resolved does not
\* depend on the texts
LiveEvents == EventsOf({"ab"})

\* what the caller passes as progressCallback: none, one that returns, one
\* that throws
CbKinds == {"none", "ok", "throws"}

VARIABLES
    callbacks,       \* SwitchBackend.callbacks: key -> registered closure
    first_response,  \* per request: the closure variable first_response, <<>> is null
    settled,         \* per request: state of the promise invoke returned
    payload,         \* per request: the value the promise resolved with, <<>> if none
    reason,          \* per request: the value the promise rejected with, "" if none
    requests,        \* the invoke calls so far: envelope id and kind of progress callback
    sent,            \* per request: calls of sendMessage with its envelope that returned
    channel,         \* inbound events in flight, in the order the host emitted them
    recv,            \* per request: chunks dispatched that bore its id, up to the first terminal one
    calls,           \* per request: invocations of its completion callback
    removed,         \* per request: times its per-id entry was deleted from the registry
    uncaught,        \* an exception left the dispatch handler or invoke
    threw,           \* the requests one of whose callbacks has thrown during a dispatch
    lastOp,          \* the operation that produced this state
    nx,              \* window.nx is defined: the page runs inside the host
    build,           \* the backend.ts in use: SwitchBackend with a private constructor
                     \* and instance() ("singleton"), with a public constructor ("public"),
                     \* or the older one ("legacy"), which has instance() too, builds the
                     \* envelope inside invoke and registers a progress callback always
    singleton,       \* SwitchBackend.singleton is set
    engines,         \* SwitchBackend instances constructed in this process
    listeners,       \* handlers attached to "message" on the shared channel
    handled          \* handlers the last dispatched event was handed to

vars == <<callbacks, first_response, settled, payload, reason, requests, sent, channel,
          recv, calls, removed, uncaught, threw, lastOp,
          nx, build, singleton, engines, listeners, handled>>

\* the process around the engine: the host binding, the engine instances and
\* the handlers they attached
procVars == <<nx, build, singleton, engines, listeners>>

Reqs == 1..MaxReq

\* the engine's state and the observations on it, as one value, so that a
\* handler can be applied inside another (a reply delivered during send);
\* ran collects the callbacks that run during the operation, out counts the
\* calls of skyline.sendMessage it makes, res collects its calls of resolve,
\* each with the keys the registry held when it was called
Engine ==
    [callbacks |-> callbacks, first_response |-> first_response, settled |-> settled,
     payload |-> payload, reason |-> reason, recv |-> recv, calls |-> calls,
     removed |-> removed, uncaught |-> uncaught, threw |-> threw, ran |-> {}, out |-> 0,
     res |-> {}]

SetEngine(e) ==
    /\ callbacks' = e.callbacks
    /\ first_response' = e.first_response
    /\ settled' = e.settled
    /\ payload' = e.payload
    /\ reason' = e.reason
    /\ recv' = e.recv
    /\ calls' = e.calls
    /\ removed' = e.removed
    /\ uncaught' = e.uncaught
    /\ threw' = e.threw

\* ------------------------------------------------------------- registry
\* new Map()
EmptyMap == [k \in {} |-> 0]

\* Map.set
MapSet(m, k, v) == [x \in (DOMAIN m) \cup {k} |-> IF x = k THEN v ELSE m[x]]

\* Map.delete
MapDelete(m, k) == [x \in (DOMAIN m) \ {k} |-> m[x]]

\* a registered callback: the closure of request r, created by its invoke for
\* the envelope id; cb is the caller's progressCallback it wraps
Closure(kind, r, id, cb) == [kind |-> kind, req |-> r, id |-> id, cb |-> cb]

\* -------------------------------------------------------------- promises
\* resolve(value) of the promise of request r: settles a pending promise,
\* does nothing to a settled one
Resolve(e, r, value) ==
    LET e1 == [e EXCEPT !.res = @ \cup {[req |-> r, keys |-> DOMAIN e.callbacks]}]
    IN  IF e.settled[r] = "pending"
        THEN [e1 EXCEPT !.settled[r] = "resolved", !.payload[r] = <<value>>]
        ELSE e1

\* a variant of Reject that settles a settled promise again
RejectAlways(e, r, value) ==
    [e EXCEPT !.settled[r] = "rejected", !.reason[r] = value]

\* reject(value) of the promise of request r
Reject(e, r, value) ==
    IF e.settled[r] = "pending"
    THEN [e EXCEPT !.settled[r] = "rejected", !.reason[r] = value]
    ELSE e

\* JSON.stringify of a decoded envelope: the text carries its fields, an
\* absent field stays absent
JSONStringify(o) == [id |-> o.id, message |-> o.message, more |-> o.more, ok |-> o.ok]

\* ------------------------------------------------- the completion callback
\* a variant of IsTerminal that takes only an explicit `more: false` as the end
IsTerminalStrict(response) == response.more = "false"

\* a variant of IsTerminal that takes every chunk as the end
IsTerminalAlways(response) == TRUE

\* response.more === undefined || response.more == false: the loose equality
\* holds of false and of 0, not of null
IsTerminal(response) == response.more = ABSENT \/ response.more \in {"false", ZERO}

\* a variant of Accumulate that replaces the kept message by the chunk's
AccumulateReplace(first, response) ==
    IF first = <<>>
    THEN <<response>>
    ELSE <<[first[1] EXCEPT !.message = response.message]>>

\* a variant of Accumulate that keeps the fields of the latest chunk
AccumulateLast(first, response) ==
    IF first = <<>>
    THEN <<response>>
    ELSE <<[response EXCEPT !.message = first[1].message \o @]>>

\* first_response after a chunk: the first chunk is kept whole, a later one
\* appends its message to the kept one's
Accumulate(first, response) ==
    IF first = <<>>
    THEN <<response>>
    ELSE <<[first[1] EXCEPT !.message = @ \o response.message]>>

\* a variant of DeleteEntries that leaves the per-id entry registered
DeleteEntriesKeepId(e, r, id) ==
    [e EXCEPT !.callbacks = MapDelete(@, PROGRESS)]

\* a variant of DeleteEntries that leaves the progress entry registered
DeleteEntriesKeepProgress(e, r, id) ==
    [e EXCEPT !.callbacks = MapDelete(@, id),
              !.removed[r] = IF id \in DOMAIN e.callbacks THEN @ + 1 ELSE @]

\* a variant of DeleteEntries that deletes the progress entry only when the
\* request registered it
DeleteEntriesOwnProgress(e, r, id) ==
    LET m == MapDelete(e.callbacks, id)
    IN  [e EXCEPT !.callbacks = IF PROGRESS \in DOMAIN m /\ m[PROGRESS].req = r
                                 THEN MapDelete(m, PROGRESS) ELSE m,
                  !.removed[r] = IF id \in DOMAIN e.callbacks THEN @ + 1 ELSE @]

\* a variant of DeleteEntries that empties the registry
DeleteEntriesAll(e, r, id) ==
    [e EXCEPT !.callbacks = EmptyMap,
              !.removed[r] = IF id \in DOMAIN e.callbacks THEN @ + 1 ELSE @]

\* this.callbacks.delete(message.id); this.callbacks.delete("progress")
DeleteEntries(e, r, id) ==
    [e EXCEPT !.callbacks = MapDelete(MapDelete(@, id), PROGRESS),
              !.removed[r] = IF id \in DOMAIN e.callbacks THEN @ + 1 ELSE @]

\* a callback that ran: the completion callback of request r, its progress
\* wrapper, or the progressCallback its caller supplied
Ran(what, r) == [what |-> what, req |-> r]

\* a variant of CompletionCallback that resolves on the terminal chunk and
\* leaves the registry as it is
CompletionCallbackKeepEntries(e, c, response) ==
    LET r == c.req
        first == Accumulate(e.first_response[r], response)
        e1 == [e EXCEPT !.first_response[r] = first, !.calls[r] = @ + 1,
                        !.ran = @ \cup {Ran("completion", r)}]
    IN  IF IsTerminal(response)
        THEN Resolve(e1, r, JSONStringify(first[1]))
        ELSE e1

\* a variant of CompletionCallback that resolves before it deletes the entries
CompletionCallbackResolveFirst(e, c, response) ==
    LET r == c.req
        first == Accumulate(e.first_response[r], response)
        e1 == [e EXCEPT !.first_response[r] = first, !.calls[r] = @ + 1,
                        !.ran = @ \cup {Ran("completion", r)}]
    IN  IF IsTerminal(response)
        THEN DeleteEntries(Resolve(e1, r, JSONStringify(first[1])), r, c.id)
        ELSE e1

\* the callback invoke registers under message.id
CompletionCallback(e, c, response) ==
    LET r == c.req
        first == Accumulate(e.first_response[r], response)
        e1 == [e EXCEPT !.first_response[r] = first, !.calls[r] = @ + 1,
                        !.ran = @ \cup {Ran("completion", r)}]
    IN  IF IsTerminal(response)
        THEN Resolve(DeleteEntries(e1, r, c.id), r, JSONStringify(first[1]))
        ELSE e1

\* --------------------------------------------------- the progress wrapper
\* Progress.from(text) throws on a text that is no progress object
ProgressFromThrows(text) == text # PROGRESS_JSON

\* the callback invoke registers under "progress": the caller's callback is
\* called with the decoded progress; what it or Progress.from throws is
\* caught and logged with the response converted to a string, which throws
\* in turn when the response does not convert
ProgressWrapper(e, c, response) ==
    LET parsed == ~ProgressFromThrows(response.message)
        e1 == [e EXCEPT !.ran = @ \cup {Ran("wrapper", c.req)}
                                    \cup (IF parsed THEN {Ran("progressCallback", c.req)} ELSE {})]
        thrown == ~parsed \/ c.cb = "throws"
        e2 == IF thrown THEN [e1 EXCEPT !.threw = @ \cup {c.req}] ELSE e1
    IN  [e |-> e2, thrown |-> thrown /\ ~response.str]

\* the empty progress callback (res) => {} of the legacy build
NoOpCallback(e, c, response) == [e EXCEPT !.ran = @ \cup {Ran("noop", c.req)}]

\* callback(response) for a registered callback
Call(e, c, response) ==
    CASE c.kind = "completion" -> [e |-> CompletionCallback(e, c, response), thrown |-> FALSE]
      [] c.kind = "noop" -> [e |-> NoOpCallback(e, c, response), thrown |-> FALSE]
      [] OTHER -> ProgressWrapper(e, c, response)

\* ---------------------------------------------------- the dispatch handler
\* JSON.parse(data) and response.id: the first throws on a text that is no
\* JSON, the second on null; an object without id gives undefined
DecodeThrows(data) == data.kind \in {"notjson", "null"}

DecodedId(data) == IF data.kind = "noid" THEN UNDEFINED ELSE data.id

\* a variant of DispatchHandler that calls what the lookup returned without
\* testing it: for an unknown id the call of undefined leaves the handler
DispatchHandlerNoCheck(e, data) ==
    IF DecodeThrows(data)
    THEN e
    ELSE LET id == DecodedId(data)
         IN  IF id \in DOMAIN e.callbacks
             THEN LET c == e.callbacks[id]
                      res == Call(e, c, data)
                  IN  IF res.thrown
                      THEN [res.e EXCEPT !.threw = @ \cup {c.req}]
                      ELSE res.e
             ELSE [e EXCEPT !.uncaught = TRUE]

\* a variant of DispatchHandler without the try/catch around the callback
DispatchHandlerNoCallCatch(e, data) ==
    IF DecodeThrows(data)
    THEN e
    ELSE LET id == DecodedId(data)
         IN  IF id \in DOMAIN e.callbacks
             THEN LET c == e.callbacks[id]
                      res == Call(e, c, data)
                  IN  IF res.thrown
                      THEN [res.e EXCEPT !.threw = @ \cup {c.req}, !.uncaught = TRUE]
                      ELSE res.e
             ELSE e

\* a variant of DispatchHandler without the try/catch around the decoding
DispatchHandlerNoDecodeCatch(e, data) ==
    IF DecodeThrows(data)
    THEN [e EXCEPT !.uncaught = TRUE]
    ELSE LET id == DecodedId(data)
         IN  IF id \in DOMAIN e.callbacks
             THEN LET c == e.callbacks[id]
                      res == Call(e, c, data)
                  IN  IF res.thrown
                      THEN [res.e EXCEPT !.threw = @ \cup {c.req}]
                      ELSE res.e
             ELSE e

\* the listener the constructor attaches to "message"
DispatchHandler(e, data) ==
    IF DecodeThrows(data)
    THEN e  \* caught: logged, return
    ELSE LET id == DecodedId(data)
         IN  IF id \in DOMAIN e.callbacks
             THEN LET c == e.callbacks[id]
                      res == Call(e, c, data)
                  IN  IF res.thrown
                      THEN [res.e EXCEPT !.threw = @ \cup {c.req}]  \* caught: logged
                      ELSE res.e
             ELSE e  \* unknown id: logged

\* the chunks dispatched for a request, as the host delivered them: an event
\* that bears the id of an invoked request is noted until the first terminal
\* one has been noted
Noted(e, reqs, data) ==
    [e EXCEPT !.recv = [r \in Reqs |->
        IF /\ r <= Len(reqs)
           /\ data.kind = "json"
           /\ data.id = reqs[r].id
           /\ \A i \in 1..Len(e.recv[r]) : e.recv[r][i].more = "true"
        THEN Append(e.recv[r], [message |-> data.message, more |-> data.more, ok |-> data.ok])
        ELSE e.recv[r]]]

\* one inbound event handed to the listener
Dispatch(e, reqs, data) == DispatchHandler(Noted(e, reqs, data), data)

\* ------------------------------------------------------ the transport shim
\* a variant of SkylineSendMessage without the test of window.nx: the call of
\* sendMessage on undefined throws
SkylineSendMessageNoTest(present, hostDoes) == IF present THEN hostDoes ELSE "threw"

\* skyline.sendMessage: returns at once when window.nx is undefined, else it
\* does what window.nx.sendMessage does: "sent" it returns, "threw" it throws,
\* "syncreply" it hands a reply to the listener before it returns,
\* "syncreplythrew" it hands a reply to the listener and then throws
SkylineSendMessage(present, hostDoes) == IF present THEN hostDoes ELSE "sent"

\* a variant of SkylineAddEventListener that attaches without window.nx
SkylineAddEventListenerNoTest(present, attached) == attached + 1

\* skyline.addEventListener: the handlers attached to the channel after the
\* call; none is attached when window.nx is undefined
SkylineAddEventListener(present, attached) == IF present THEN attached + 1 ELSE attached

\* ------------------------------------------------------------------ invoke
\* a variant of Register that registers the completion callback only when no
\* progressCallback was given
RegisterEither(e, r, id, cb) ==
    LET m1 == IF cb # "none"
              THEN MapSet(e.callbacks, PROGRESS, Closure("progress", r, id, cb))
              ELSE MapSet(e.callbacks, id, Closure("completion", r, id, "none"))
    IN  [e EXCEPT !.callbacks = m1, !.settled[r] = "pending"]

\* a variant of Register that leaves a progress callback already registered
\* in place
RegisterKeepFirst(e, r, id, cb) ==
    LET m1 == IF cb # "none" /\ PROGRESS \notin DOMAIN e.callbacks
              THEN MapSet(e.callbacks, PROGRESS, Closure("progress", r, id, cb))
              ELSE e.callbacks
    IN  [e EXCEPT !.callbacks = MapSet(m1, id, Closure("completion", r, id, "none")),
                  !.settled[r] = "pending"]

\* a variant of Register that leaves a completion callback already registered
\* under the id in place
RegisterKeepExisting(e, r, id, cb) ==
    LET m1 == CASE cb # "none" ->
                     MapSet(e.callbacks, PROGRESS, Closure("progress", r, id, cb))
                [] cb = "none" /\ build = "legacy" ->
                     MapSet(e.callbacks, PROGRESS, Closure("noop", r, id, "none"))
                [] OTHER -> e.callbacks
    IN  [e EXCEPT !.callbacks = IF id \in DOMAIN m1
                                 THEN m1
                                 ELSE MapSet(m1, id, Closure("completion", r, id, "none")),
                  !.settled[r] = "pending"]

\* the registrations of invoke, before the envelope is sent: the progress
\* wrapper when a progressCallback was given (without one the legacy build
\* registers an empty callback, the others nothing), then the completion
\* callback
Register(e, r, id, cb) ==
    LET m1 == CASE cb # "none" ->
                     MapSet(e.callbacks, PROGRESS, Closure("progress", r, id, cb))
                [] cb = "none" /\ build = "legacy" ->
                     MapSet(e.callbacks, PROGRESS, Closure("noop", r, id, "none"))
                [] OTHER -> e.callbacks
    IN  [e EXCEPT !.callbacks = MapSet(m1, id, Closure("completion", r, id, "none")),
                  !.settled[r] = "pending"]

\* the value invoke rejects with: "Error: " + JSON.stringify(e)
DIAGNOSTIC == "Error: {}"

\* a variant of InvokeCatch that empties the registry
InvokeCatchClearAll(e, r) ==
    Reject([e EXCEPT !.callbacks = EmptyMap], r, DIAGNOSTIC)

\* a variant of InvokeCatch that leaves the progress entry registered
InvokeCatchKeepProgress(e, r) == Reject(e, r, DIAGNOSTIC)

\* a variant of InvokeCatch that deletes the per-id entry too
InvokeCatchDeleteId(e, r) ==
    Reject([e EXCEPT !.callbacks = MapDelete(MapDelete(@, PROGRESS), IdOf(r))], r, DIAGNOSTIC)

\* the catch branch of invoke, taken when sendMessage threw
InvokeCatch(e, r) ==
    Reject([e EXCEPT !.callbacks = MapDelete(@, PROGRESS)], r, DIAGNOSTIC)

\* the terminal replies the test host delivers from inside sendMessage:
\* a StringResponse or an OkOrError bearing the id of the message
SyncReplies(id) ==
    {Data("json", id, m, ABSENT, ok, TRUE) : m \in Msgs \cup FacadeMsgs, ok \in FacadeOkVals}

\* a variant of SwitchBackendInvoke that sends the envelope again when
\* sendMessage threw
SwitchBackendInvokeRetry(e, reqs, r, id, cb, hostDoes, reply) ==
    LET e1 == [Register(e, r, id, cb) EXCEPT !.out = @ + 1]
        outcome == SkylineSendMessage(nx, hostDoes)
    IN  CASE outcome = "sent" -> e1
          [] outcome = "threw" -> InvokeCatch([e1 EXCEPT !.out = @ + 1], r)
          [] outcome = "syncreply" -> Dispatch(e1, reqs, reply)

\* a variant of SwitchBackendInvoke that calls skyline.sendMessage before it
\* registers the callbacks
SwitchBackendInvokeSendFirst(e, reqs, r, id, cb, hostDoes, reply) ==
    LET e0 == [e EXCEPT !.out = @ + 1, !.settled[r] = "pending"]
        outcome == SkylineSendMessage(nx, hostDoes)
    IN  CASE outcome = "sent" -> Register(e0, r, id, cb)
          [] outcome = "threw" -> InvokeCatch(e0, r)
          [] outcome = "syncreply" -> Register(Dispatch(e0, reqs, reply), r, id, cb)
          [] outcome = "syncreplythrew" -> InvokeCatch(Dispatch(e0, reqs, reply), r)

\* SwitchBackend.invoke for request r: the registrations, then one call of
\* skyline.sendMessage.  hostDoes is what window.nx.sendMessage does: "sent"
\* it returns, "threw" it throws, "syncreply" it hands `reply` to the listener
\* before it returns, "syncreplythrew" it hands `reply` to the listener and
\* then throws
SwitchBackendInvoke(e, reqs, r, id, cb, hostDoes, reply) ==
    LET e1 == [Register(e, r, id, cb) EXCEPT !.out = @ + 1]
        outcome == SkylineSendMessage(nx, hostDoes)
    IN  CASE outcome = "sent" -> e1
          [] outcome = "threw" -> InvokeCatch(e1, r)
          [] outcome = "syncreply" -> Dispatch(e1, reqs, reply)
          [] outcome = "syncreplythrew" -> InvokeCatch(Dispatch(e1, reqs, reply), r)

\* ------------------------------------------------------------------- send
\* the identifier of the envelope of a send: a fresh one, as every envelope's
SendId == IdOf(0)

\* what the test host hands to the listener from inside the sendMessage of a
\* send: a StringResponse bearing the id of the message
SendReply == Data("json", SendId, "ab", ABSENT, ABSENT, TRUE)

\* a variant of SwitchBackendSend that registers a callback for the envelope
SwitchBackendSendRegisters(e, reqs, hostDoes) ==
    [e EXCEPT !.out = @ + 1,
              !.callbacks = MapSet(@, SendId, Closure("completion", 0, SendId, "none"))]

\* SwitchBackend.send: one call of skyline.sendMessage with the serialized
\* envelope, nothing else; what sendMessage throws leaves send
SwitchBackendSend(e, reqs, hostDoes) ==
    LET e1 == [e EXCEPT !.out = @ + 1]
    IN  IF SkylineSendMessage(nx, hostDoes) = "syncreply"
        THEN Dispatch(e1, reqs, SendReply)
        ELSE e1

\* ----------------------------------------------------------------- actions
UsedIds == {requests[i].id : i \in 1..Len(requests)}

\* the operation that produced a state: its name, the request it invoked
\* (0: none), the event it dispatched, the callbacks that ran in it, the
\* calls of skyline.sendMessage it made and the calls of resolve it made
Op(op, r, data, ran, out, res) ==
    [op |-> op, req |-> r, ran |-> ran, out |-> out, res |-> res,
     data |-> [kind |-> data.kind, id |-> data.id, more |-> data.more]]

NoData == Data("none", UNDEFINED, "", ABSENT, ABSENT, TRUE)

\* the engine right after construction: an empty registry, no request
EngineInit ==
    /\ callbacks = EmptyMap
    /\ first_response = [r \in Reqs |-> <<>>]
    /\ settled = [r \in Reqs |-> "none"]
    /\ payload = [r \in Reqs |-> <<>>]
    /\ reason = [r \in Reqs |-> ""]
    /\ requests = <<>>
    /\ sent = [r \in Reqs |-> 0]
    /\ channel = <<>>
    /\ recv = [r \in Reqs |-> <<>>]
    /\ calls = [r \in Reqs |-> 0]
    /\ removed = [r \in Reqs |-> 0]
    /\ uncaught = FALSE
    /\ threw = {}
    /\ lastOp = Op("init", 0, NoData, {}, 0, {})
    /\ handled = 0

Init ==
    /\ EngineInit
    /\ nx \in BOOLEAN
    /\ build = "singleton"
    /\ singleton = TRUE
    /\ engines = 1
    /\ listeners = SkylineAddEventListener(nx, 0)

\* a caller invokes with a fresh envelope and the transport accepts it
InvokeSent(cb) ==
    /\ Len(requests) < MaxReq
    /\ LET r == Len(requests) + 1
           id == IdOf(r)
           reqs == Append(requests, [id |-> id, cb |-> cb])
           e == SwitchBackendInvoke(Engine, reqs, r, id, cb, "sent", NoData)
       IN  /\ SetEngine(e)
           /\ requests' = reqs
           /\ sent' = [sent EXCEPT ![r] = @ + 1]
           /\ lastOp' = Op("invokeSent", r, NoData, e.ran, e.out, e.res)
    /\ UNCHANGED <<channel, procVars, handled>>

\* a caller invokes and the transport's sendMessage throws
InvokeThrew(cb) ==
    /\ Len(requests) < MaxReq
    /\ SkylineSendMessage(nx, "threw") = "threw"
    /\ LET r == Len(requests) + 1
           id == IdOf(r)
           reqs == Append(requests, [id |-> id, cb |-> cb])
           e == SwitchBackendInvoke(Engine, reqs, r, id, cb, "threw", NoData)
       IN  /\ SetEngine(e)
           /\ requests' = reqs
           /\ lastOp' = Op("invokeThrew", r, NoData, e.ran, e.out, e.res)
    /\ UNCHANGED <<sent, channel, procVars, handled>>

\* a caller invokes and the host replies from inside sendMessage
InvokeSyncReply(cb, reply) ==
    /\ Len(requests) < MaxReq
    /\ SkylineSendMessage(nx, "syncreply") = "syncreply"
    /\ LET r == Len(requests) + 1
           id == IdOf(r)
           reqs == Append(requests, [id |-> id, cb |-> cb])
           e == SwitchBackendInvoke(Engine, reqs, r, id, cb, "syncreply", reply)
       IN  /\ reply \in SyncReplies(id)
           /\ SetEngine(e)
           /\ requests' = reqs
           /\ sent' = [sent EXCEPT ![r] = @ + 1]
           /\ lastOp' = Op("invokeSyncReply", r, reply, e.ran, e.out, e.res)
    /\ UNCHANGED <<channel, procVars, handled>>

\* the host emits an event onto the shared channel; an identifier it bears
\* is "progress", one of an envelope generated so far, or a stray one, and
\* it sends at most MaxChunks chunks to a registered completion callback
HostEmit(data) ==
    /\ nx
    /\ (data.kind = "json" /\ data.id \in Ids) =>
          /\ data.id \in UsedIds
          /\ data.id \in DOMAIN callbacks => calls[callbacks[data.id].req] < MaxChunks
    /\ Len(channel) < MaxChannel
    /\ channel' = Append(channel, data)
    /\ lastOp' = Op("emit", 0, NoData, {}, 0, {})
    /\ UNCHANGED <<callbacks, first_response, settled, payload, reason, requests, sent,
                   recv, calls, removed, uncaught, threw, procVars, handled>>

\* the event loop hands the oldest event in flight to the handlers attached
\* to the channel
Deliver ==
    /\ channel # <<>>
    /\ listeners > 0
    /\ LET e == Dispatch(Engine, requests, Head(channel))
       IN  /\ SetEngine(e)
           /\ lastOp' = Op("dispatch", 0, Head(channel), e.ran, e.out, e.res)
    /\ channel' = Tail(channel)
    /\ handled' = listeners
    /\ UNCHANGED <<requests, sent, procVars>>

\* a caller sends a fire-and-forget envelope (exitSession, exitApplication)
Send(hostDoes) ==
    /\ LET e == SwitchBackendSend(Engine, requests, hostDoes)
       IN  /\ SetEngine(e)
           /\ lastOp' = Op(IF SkylineSendMessage(nx, hostDoes) = "threw"
                           THEN "sendThrew" ELSE "send", 0, NoData, e.ran, e.out, e.res)
    /\ UNCHANGED <<requests, sent, channel, procVars, handled>>

\* the steps of the callers, the host and the event loop, the host's events
\* drawn from E
NextOver(E) ==
    \/ \E cb \in CbKinds : InvokeSent(cb)
    \/ \E cb \in CbKinds : InvokeThrew(cb)
    \/ \E cb \in CbKinds, reply \in E : InvokeSyncReply(cb, reply)
    \/ \E data \in E : HostEmit(data)
    \/ Deliver

Next == NextOver(Events)

Spec == Init /\ [][Next]_vars

\* the event loop keeps running: an event in flight is eventually dispatched
LiveNext == NextOver(LiveEvents)

LiveSpec == Init /\ [][LiveNext]_vars /\ WF_vars(Deliver)

\* the same steps and, at any point, a fire-and-forget send
SendNext ==
    \/ NextOver(LiveEvents)
    \/ \E hostDoes \in {"sent", "threw", "syncreply"} : Send(hostDoes)

SendSpec == Init /\ [][SendNext]_vars

\* the host's chunks carry any JSON value as `more`
FramingEvents == ChunksWith({"ab"}, FramingMoreVals, OkVals) \cup StrayEvents

FramingSpec == Init /\ [][NextOver(FramingEvents)]_vars

\* the host's replies carry `ok`, as those the messenger facade decodes
FacadeEvents == ChunksWith(FacadeMsgs, MoreVals, FacadeOkVals) \cup StrayEvents

FacadeSpec == Init /\ [][NextOver(FacadeEvents)]_vars

\* a caller invokes, the host replies from inside sendMessage, and sendMessage
\* then throws
InvokeSyncReplyThrew(cb, reply) ==
    /\ Len(requests) < MaxReq
    /\ SkylineSendMessage(nx, "syncreplythrew") = "syncreplythrew"
    /\ LET r == Len(requests) + 1
           id == IdOf(r)
           reqs == Append(requests, [id |-> id, cb |-> cb])
           e == SwitchBackendInvoke(Engine, reqs, r, id, cb, "syncreplythrew", reply)
       IN  /\ reply \in SyncReplies(id)
           /\ SetEngine(e)
           /\ requests' = reqs
           /\ lastOp' = Op("invokeSyncReplyThrew", r, reply, e.ran, e.out, e.res)
    /\ UNCHANGED <<sent, channel, procVars, handled>>

\* the same steps with a transport that may throw after it delivered a reply
SettleNext ==
    \/ NextOver(LiveEvents)
    \/ \E cb \in CbKinds, reply \in LiveEvents : InvokeSyncReplyThrew(cb, reply)

SettleSpec == Init /\ [][SettleNext]_vars

\* a caller passes to BasicMessenger.invoke the envelope of an earlier request
\* r0 again: the engine registers under the id the envelope already bore
InvokeReused(r0, cb) ==
    /\ Len(requests) < MaxReq
    /\ r0 \in 1..Len(requests)
    /\ build # "legacy"
    /\ LET r == Len(requests) + 1
           id == requests[r0].id
           reqs == Append(requests, [id |-> id, cb |-> cb])
           e == SwitchBackendInvoke(Engine, reqs, r, id, cb, "sent", NoData)
       IN  /\ SetEngine(e)
           /\ requests' = reqs
           /\ sent' = [sent EXCEPT ![r] = @ + 1]
           /\ lastOp' = Op("invokeReused", r, NoData, e.ran, e.out, e.res)
    /\ UNCHANGED <<channel, procVars, handled>>

\* the same steps with callers that keep an envelope and invoke with it again
ReuseNext ==
    \/ NextOver(LiveEvents)
    \/ \E r0 \in Reqs, cb \in CbKinds : InvokeReused(r0, cb)

ReuseSpec == Init /\ [][ReuseNext]_vars

\* the call names of exitSession and exitApplication
ExitCalls == {"exit_session", "exit_application"}

\* DefaultMessenger.exitSession and exitApplication: a send of an envelope
\* with the call name; in the legacy build an invoke with it, without a
\* progress callback
Exit(name, hostDoes) ==
    /\ SkylineSendMessage(nx, hostDoes) = hostDoes
    /\ IF build = "legacy"
       THEN /\ Len(requests) < MaxReq
            /\ LET r == Len(requests) + 1
                   id == IdOf(r)
                   reqs == Append(requests, [id |-> id, cb |-> "none"])
                   e == SwitchBackendInvoke(Engine, reqs, r, id, "none", hostDoes, NoData)
               IN  /\ SetEngine(e)
                   /\ requests' = reqs
                   /\ sent' = [sent EXCEPT ![r] = IF hostDoes = "sent" THEN @ + 1 ELSE @]
                   /\ lastOp' = Op(name, r, NoData, e.ran, e.out, e.res)
       ELSE /\ LET e == SwitchBackendSend(Engine, requests, hostDoes)
               IN  /\ SetEngine(e)
                   /\ lastOp' = Op(name, 0, NoData, e.ran, e.out, e.res)
            /\ UNCHANGED <<requests, sent>>
    /\ UNCHANGED <<channel, procVars, handled>>

\* the process with the engine of the current or of the legacy backend.ts
BuildInit ==
    /\ EngineInit
    /\ nx \in BOOLEAN
    /\ build \in {"singleton", "legacy"}
    /\ singleton = TRUE
    /\ engines = 1
    /\ listeners = SkylineAddEventListener(nx, 0)

BuildNext ==
    \/ NextOver(LiveEvents)
    \/ \E name \in ExitCalls, hostDoes \in {"sent", "threw"} : Exit(name, hostDoes)

BuildSpec == BuildInit /\ [][BuildNext]_vars

\* ------------------------------------------------- construction of engines
\* a variant of SwitchBackendInstance that constructs an engine at each call
SwitchBackendInstanceAlways(p) ==
    [p EXCEPT !.singleton = TRUE, !.engines = @ + 1,
              !.listeners = SkylineAddEventListener(nx, @)]

\* the constructor of SwitchBackend: one more engine, whose dispatch handler
\* is attached to the channel with skyline.addEventListener
SwitchBackendConstructor(p) ==
    [p EXCEPT !.engines = @ + 1, !.listeners = SkylineAddEventListener(nx, @)]

\* SwitchBackend.instance(): the engine is constructed at the first call
SwitchBackendInstance(p) ==
    IF ~p.singleton
    THEN [SwitchBackendConstructor(p) EXCEPT !.singleton = TRUE]
    ELSE p

Process == [singleton |-> singleton, engines |-> engines, listeners |-> listeners]

SetProcess(p) ==
    /\ singleton' = p.singleton
    /\ engines' = p.engines
    /\ listeners' = p.listeners

\* the process before any engine is constructed
SingletonInit ==
    /\ EngineInit
    /\ nx \in BOOLEAN
    /\ build \in {"singleton", "public"}
    /\ singleton = FALSE
    /\ engines = 0
    /\ listeners = 0

\* new BasicMessenger() or new DefaultMessenger() without a supplier: the
\* messenger takes SwitchBackend.instance()
NewMessenger ==
    /\ build \in {"singleton", "legacy"}
    /\ SetProcess(SwitchBackendInstance(Process))
    /\ lastOp' = Op("newMessenger", 0, NoData, {}, 0, {})
    /\ UNCHANGED <<callbacks, first_response, settled, payload, reason, requests, sent,
                   channel, recv, calls, removed, uncaught, threw, nx, build, handled>>

\* new DefaultMessenger(new SwitchBackend()): the constructor is public in the
\* backend.ts the test suite is written against, which has no instance()
NewSwitchBackend ==
    /\ build = "public"
    /\ engines < MaxEngines
    /\ SetProcess(SwitchBackendConstructor(Process))
    /\ lastOp' = Op("newSwitchBackend", 0, NoData, {}, 0, {})
    /\ UNCHANGED <<callbacks, first_response, settled, payload, reason, requests, sent,
                   channel, recv, calls, removed, uncaught, threw, nx, build, handled>>

\* constructions of messengers and engines, and the host's events, which the
\* event loop hands to every handler attached; no request is invoked, so the
\* registry of every engine is empty
SingletonNext ==
    \/ NewMessenger
    \/ NewSwitchBackend
    \/ \E data \in LiveEvents : HostEmit(data)
    \/ Deliver

SingletonSpec == SingletonInit /\ [][SingletonNext]_vars

\* ------------------------------------------------- notions of the claims
\* request r has been invoked
Invoked(r) == r <= Len(requests)

\* the sendMessage of request r threw
SendThrew(r) == Invoked(r) /\ sent[r] = 0

\* a terminal chunk (more absent or false) bearing the id of request r has
\* been dispatched
TerminalNoted(r) == recv[r] # <<>> /\ recv[r][Len(recv[r])].more # "true"

\* m1 + m2 + ... + mk of the chunks, in the order of their delivery
RECURSIVE Concat(_)
Concat(chunks) ==
    IF chunks = <<>> THEN "" ELSE chunks[1].message \o Concat(Tail(chunks))

\* the promise of request r is resolved with the concatenation of the
\* messages of the chunks dispatched for its id
ResolvedWithConcat(r) ==
    /\ settled[r] = "resolved"
    /\ payload[r] # <<>>
    /\ payload[r][1].id = requests[r].id
    /\ payload[r][1].message = Concat(recv[r])

\* a terminal chunk bearing the id of request r is in flight on the channel
TerminalInFlight(r) ==
    \E i \in 1..Len(channel) :
        /\ channel[i].kind = "json"
        /\ channel[i].id = requests[r].id
        /\ channel[i].more # "true"

\* the requests whose promise is pending
InFlight == {r \in 1..Len(requests) : settled[r] = "pending"}

\* this step is the dispatch of the oldest event in flight
IsDeliver == channel # <<>> /\ channel' = Tail(channel)

\* the engine's registry, closures and promises are what they were
EngineUnchanged ==
    /\ callbacks' = callbacks
    /\ first_response' = first_response
    /\ settled' = settled
    /\ payload' = payload
    /\ reason' = reason

\* the last operation dispatched (from the channel or from inside
\* sendMessage) a terminal chunk to the completion callback of request r
JustTerminated(r) ==
    /\ lastOp.op \in {"dispatch", "invokeSyncReply"}
    /\ Ran("completion", r) \in lastOp.ran
    /\ lastOp.data.more # "true"

\* ------------------------------------------------------------------ claims

\* C1 as stated: for any request id, once the host has delivered k >= 1 chunks
\* for it, the first k-1 with more = true and the last terminal, the promise
\* invoke returned is resolved with the concatenation m1 + ... + mk.
C1_AsStated ==
    \A r \in Reqs : (Invoked(r) /\ TerminalNoted(r)) => ResolvedWithConcat(r)

\* C1 amended: for any request whose send did not throw, once the host has
\* delivered k >= 1 chunks for its id, the first k-1 with more = true and the
\* last terminal, the promise is resolved with the concatenation m1 + ... + mk
\* in delivery order.
C1_ChunkAccumulation ==
    \A r \in Reqs :
        (Invoked(r) /\ ~SendThrew(r) /\ TerminalNoted(r)) => ResolvedWithConcat(r)

\* 'ab' (more) then 'cd' (terminal) has resolved a promise with 'abcd'
C1_Witness ==
    \E r \in Reqs :
        /\ Invoked(r)
        /\ Len(recv[r]) = 2
        /\ recv[r][1].message = "ab"
        /\ settled[r] = "resolved"
        /\ payload[r][1].message = "abcd"

C3_RemovedOnce ==
    \A r \in Reqs :
        Invoked(r) =>
            /\ removed[r] <= 1
            /\ calls[r] = Len(recv[r])
            /\ TerminalNoted(r) =>
                /\ removed[r] = 1
                /\ requests[r].id \notin DOMAIN callbacks

\* a chunk bearing the id of a terminated request was dispatched and ran no
\* callback
C3_Witness ==
    \E r \in Reqs :
        /\ Invoked(r)
        /\ TerminalNoted(r)
        /\ removed[r] = 1
        /\ lastOp.op = "dispatch"
        /\ lastOp.data.kind = "json"
        /\ lastOp.data.id = requests[r].id
        /\ lastOp.ran = {}

\* C4: for every invoke whose send did not throw, a terminal chunk bearing its
\* id that the host has put on the shared channel leads to the promise being
\* resolved, whatever was dispatched before it.
C4_EventuallyResolved ==
    \A r \in Reqs :
        (Invoked(r) /\ ~SendThrew(r) /\ TerminalInFlight(r)) ~> (settled[r] = "resolved")

\* the terminal chunk of a pending request that has received a chunk is in
\* flight, while a callback has thrown and another request is pending
C4_Witness ==
    \E r, q \in Reqs :
        /\ Invoked(r) /\ Invoked(q) /\ r # q
        /\ settled[r] = "pending" /\ settled[q] = "pending"
        /\ first_response[r] # <<>>
        /\ threw # {}
        /\ TerminalInFlight(r)

\* C5: the registry's keys are exactly the identifiers of the requests still
\* awaiting their terminal chunk, plus 'progress' exactly when a request that
\* supplied a progress callback is in flight.
C5_RegistryInvariant ==
    DOMAIN callbacks =
        {requests[r].id : r \in InFlight}
        \cup (IF \E r \in InFlight : requests[r].cb # "none" THEN {PROGRESS} ELSE {})

\* the event at the head of the channel decodes to an id no callback is
\* registered under
UnknownId(data) == ~DecodeThrows(data) /\ DecodedId(data) \notin DOMAIN callbacks

\* C6: the dispatch of an event whose id matches no registered callback throws
\* nothing out of the handler, runs no callback, settles no promise and leaves
\* the registry unchanged.
C6_UnknownIdDropped ==
    [][(IsDeliver /\ UnknownId(Head(channel))) =>
         (EngineUnchanged /\ ~uncaught' /\ lastOp'.ran = {})]_vars

\* an envelope with an unknown id was dispatched while a request that has
\* received a chunk is pending
C6_Witness ==
    /\ lastOp.op = "dispatch"
    /\ lastOp.data.kind = "json"
    /\ lastOp.data.id \notin DOMAIN callbacks
    /\ lastOp.ran = {}
    /\ \E r \in InFlight : first_response[r] # <<>>

\* C7: when a registered callback throws during a dispatch the exception does
\* not leave the handler, and every other request whose terminal chunk is
\* dispatched is resolved with its own accumulated payload.
C7_ThrowIsolated ==
    /\ threw # {} => ~uncaught
    /\ \A t \in threw : \A r \in Reqs \ {t} :
           (Invoked(r) /\ ~SendThrew(r) /\ TerminalNoted(r)) => ResolvedWithConcat(r)

\* after a callback of one request threw, the terminal chunk of another
\* request, the second of two chunks, has just resolved it
C7_Witness ==
    \E t \in threw : \E r \in Reqs \ {t} :
        /\ Invoked(r)
        /\ lastOp.op = "dispatch"
        /\ JustTerminated(r)
        /\ Len(recv[r]) = 2
        /\ settled[r] = "resolved"

\* the event is no JSON, or decodes to a value without an id
Malformed(data) == data.kind \in {"notjson", "null", "noid"}

\* C8: the dispatch of an event that is no valid JSON, or decodes to a value
\* without an id, throws nothing out of the handler, runs no callback, settles
\* no promise and leaves every registry entry and accumulated payload as it was.
C8_MalformedDropped ==
    [][(IsDeliver /\ Malformed(Head(channel))) =>
         (EngineUnchanged /\ ~uncaught' /\ lastOp'.ran = {})]_vars

\* an event that is no JSON was dispatched while a request that has received
\* a chunk is pending and a progress callback is registered
C8_Witness ==
    /\ lastOp.op = "dispatch"
    /\ lastOp.data.kind = "notjson"
    /\ PROGRESS \in DOMAIN callbacks
    /\ \E r \in InFlight : first_response[r] # <<>>

C10_ProgressAbsent ==
    \A r \in Reqs :
        (Invoked(r) /\ requests[r].cb = "none" /\ JustTerminated(r)) =>
            PROGRESS \notin DOMAIN callbacks

\* a request without a progress callback has just terminated while a request
\* that supplied one is pending
C10_Witness ==
    \E r \in Reqs :
        /\ Invoked(r)
        /\ requests[r].cb = "none"
        /\ JustTerminated(r)
        /\ \E q \in InFlight : requests[q].cb # "none"

\* ---------------------------------------------------- the messenger facade
\* the text complexRequest prefixes to the host's message when it fails
FAILED == "Operation failed on the backend, reason: "

\* OkOrError.from(json): ok is String(object.ok).toLowerCase().includes("true"),
\* false for an absent ok
OkOrErrorFrom(json) == [ok |-> json.ok = "true", message |-> json.message, id |-> json.id]

\* the promise BasicMessenger.complexRequest returns for the invoke of
\* request r: its then-callback decodes the payload as OkOrError and returns
\* the message or throws an Error with it; a rejection of invoke is rethrown
ComplexRequest(r) ==
    CASE settled[r] = "resolved" ->
            LET response == OkOrErrorFrom(payload[r][1])
            IN  IF response.ok
                THEN [state |-> "resolved", value |-> response.message]
                ELSE [state |-> "rejected", value |-> FAILED \o response.message]
      [] settled[r] = "rejected" -> [state |-> "rejected", value |-> reason[r]]
      [] OTHER -> [state |-> "pending", value |-> ""]

\* the promise DefaultMessenger.ping returns: true when complexRequest
\* resolves, its error when it rejects
Ping(r) ==
    LET p == ComplexRequest(r)
    IN  IF p.state = "resolved" THEN [state |-> "resolved", value |-> "true"] ELSE p

\* request r has terminated: a terminal chunk bearing its id was dispatched,
\* or its send failed
Terminated(r) == Invoked(r) /\ (TerminalNoted(r) \/ SendThrew(r))

\* the progress callback registered is the one request r supplied
OwnsProgress(r) == PROGRESS \in DOMAIN callbacks /\ callbacks[PROGRESS].req = r

\* C11: progress registration is a single slot: a progress callback is
\* registered under 'progress' and nowhere else, so at most one at a time; right
\* after an invoke that supplied a progress callback the one registered is that
\* invoke's; and the one a request registered is no longer registered once the
\* request has terminated (terminal chunk dispatched, or its send failed).
C11_ProgressSlot ==
    /\ \A k \in DOMAIN callbacks : callbacks[k].kind = "progress" <=> k = PROGRESS
    /\ (lastOp.op = "invokeSent" /\ requests[lastOp.req].cb # "none") =>
           OwnsProgress(lastOp.req)
    /\ \A r \in Reqs : Terminated(r) => ~OwnsProgress(r)

\* the second request overwrote the progress callback of the first, still
\* pending, and its terminal chunk has just cleared the slot
C11_Witness ==
    /\ Len(requests) = 2
    /\ requests[1].cb # "none" /\ requests[2].cb # "none"
    /\ settled[1] = "pending"
    /\ lastOp.op = "dispatch" /\ JustTerminated(2)
    /\ PROGRESS \notin DOMAIN callbacks

\* the event at the head of the channel is a progress event
ProgressAtHead == channel # <<>> /\ ~DecodeThrows(Head(channel)) /\ DecodedId(Head(channel)) = PROGRESS

\* C12: after a request that supplied a progress callback has terminated, the
\* dispatch of a 'progress' event runs neither its wrapper nor its progress
\* callback; with no request in flight the event is dropped: nothing runs,
\* nothing is thrown and the engine is unchanged.
C12_NoProgressAfterTermination ==
    [][(IsDeliver /\ ProgressAtHead) =>
         /\ \A r \in Reqs :
                (Terminated(r) /\ requests[r].cb # "none") =>
                    /\ Ran("wrapper", r) \notin lastOp'.ran
                    /\ Ran("progressCallback", r) \notin lastOp'.ran
         /\ InFlight = {} =>
                (EngineUnchanged /\ lastOp'.ran = {} /\ ~uncaught' /\ threw' = threw)]_vars

\* a progress event was dispatched and dropped after the only request, which
\* had supplied a progress callback and received two chunks, terminated
C12_Witness ==
    /\ lastOp.op = "dispatch"
    /\ lastOp.data.kind = "json" /\ lastOp.data.id = PROGRESS
    /\ lastOp.ran = {}
    /\ InFlight = {}
    /\ \E r \in Reqs :
           /\ Invoked(r) /\ requests[r].cb # "none"
           /\ Len(recv[r]) = 2 /\ settled[r] = "resolved"

\* this step is a call of SwitchBackend.send
IsSend == lastOp'.op \in {"send", "sendThrew"}

\* C13: send is fire-and-forget: in any state it calls the transport's
\* sendMessage once, runs no callback, settles no promise and leaves the
\* registry as it was: no entry added, replaced or removed, 'progress' included.
C13_SendFireAndForget ==
    [][IsSend =>
         /\ lastOp'.out = 1
         /\ EngineUnchanged
         /\ lastOp'.ran = {}
         /\ ~uncaught']_vars

\* a send while a request that has received a chunk is pending and a progress
\* callback is registered
C13_Witness ==
    /\ lastOp.op = "send"
    /\ nx
    /\ PROGRESS \in DOMAIN callbacks
    /\ \E r \in InFlight : first_response[r] # <<>>

\* C14: when window.nx is undefined, a send does not throw and leaves the
\* registry as it was, and the shim's addEventListener has attached no handler.
C14_DegradedSend ==
    [][~nx =>
         /\ listeners' = 0
         /\ IsSend => (lastOp'.op = "send" /\ callbacks' = callbacks /\ ~uncaught')]_vars

\* a send without window.nx, after an invoke
C14_Witness ==
    /\ ~nx
    /\ lastOp.op = "send"
    /\ lastOp.out = 1
    /\ Len(requests) > 0

\* C15: each invoke calls the transport's sendMessage exactly once, and no
\* dispatch of a chunk, of an event that makes a callback throw or of an event
\* with an unknown id calls it again.
C15_SendOnce ==
    /\ lastOp.op \in {"invokeSent", "invokeThrew", "invokeSyncReply"} => lastOp.out = 1
    /\ lastOp.op \in {"dispatch", "emit"} => lastOp.out = 0
    /\ \A r \in Reqs : sent[r] <= 1

\* an invoke whose send threw, after a callback of the other request threw
C15_Witness ==
    /\ lastOp.op = "invokeThrew"
    /\ lastOp.out = 1
    /\ threw # {}
    /\ \E r \in InFlight : first_response[r] # <<>>

\* C20: a request whose send succeeded and for which no terminal chunk has been
\* dispatched is pending and its completion callback is registered under its
\* id, whatever other events were dispatched and whether other requests
\* terminated or failed.
C20_NoTimeout ==
    \A r \in Reqs :
        (Invoked(r) /\ ~SendThrew(r) /\ ~TerminalNoted(r)) =>
            /\ settled[r] = "pending"
            /\ requests[r].id \in DOMAIN callbacks
            /\ callbacks[requests[r].id] = Closure("completion", r, requests[r].id, "none")
            /\ removed[r] = 0

\* a request that has received a chunk is pending after the send of the other
\* request failed and an event with an unknown id was dropped
C20_Witness ==
    \E r, q \in Reqs :
        /\ Invoked(r) /\ SendThrew(q)
        /\ settled[r] = "pending" /\ first_response[r] # <<>>
        /\ requests[r].id \in DOMAIN callbacks
        /\ lastOp.op = "dispatch" /\ lastOp.ran = {}

\* C16: over any sequence of constructions of messengers and engines, at most
\* one SwitchBackend exists, exactly one once a messenger or an engine was
\* constructed, its dispatch handler is attached to the channel at most once,
\* and no event is handed to two handlers.
C16_Singleton ==
    /\ engines <= 1
    /\ lastOp.op \in {"newMessenger", "newSwitchBackend"} => engines = 1
    /\ listeners <= 1
    /\ handled <= 1

\* the chunk the last operation dispatched to the completion callback of
\* request r was `more`
ChunkDispatched(r, more) ==
    /\ lastOp.op = "dispatch"
    /\ Ran("completion", r) \in lastOp.ran
    /\ lastOp.data.more = more

\* C17: a chunk dispatched to the completion callback of a request whose send
\* did not throw continues the request (entry kept, promise pending) if and
\* only if its more is exactly true; with any other more it terminates it
\* (entry removed, promise resolved).
C17_Framing ==
    \A r \in Reqs : \A more \in FramingMoreVals :
        (Invoked(r) /\ ~SendThrew(r) /\ ChunkDispatched(r, more)) =>
            IF more = "true"
            THEN settled[r] = "pending" /\ requests[r].id \in DOMAIN callbacks
            ELSE settled[r] = "resolved" /\ requests[r].id \notin DOMAIN callbacks

\* the reply of the claim's host to a ping: one terminal envelope without ok
PONG == [message |-> "pong", more |-> "false", ok |-> ABSENT]

\* C18: when the host has answered a request with the one terminal envelope
\* {id, message: 'pong', more: false}, the promise of invoke is resolved with a
\* payload whose message is 'pong' and the promise of ping() is resolved with
\* true.
C18_Ping ==
    \A r \in Reqs :
        (Invoked(r) /\ ~SendThrew(r) /\ recv[r] = <<PONG>>) =>
            /\ settled[r] = "resolved"
            /\ payload[r][1].message = "pong"
            /\ Ping(r) = [state |-> "resolved", value |-> "true"]

\* the terminal reply dispatched for request r
TerminalReply(r) == recv[r][Len(recv[r])]

\* C19: for a request whose send did not throw, once the host's terminal reply
\* was dispatched: if its ok is true the promise of complexRequest is
\* resolved, with the reply's message when the reply is the only chunk; if its
\* ok is false the promise is rejected with an error that carries the message.
C19_OkOrError ==
    \A r \in Reqs :
        (Invoked(r) /\ ~SendThrew(r) /\ TerminalNoted(r)) =>
            /\ TerminalReply(r).ok = "true" =>
                   /\ ComplexRequest(r).state = "resolved"
                   /\ Len(recv[r]) = 1 => ComplexRequest(r).value = TerminalReply(r).message
            /\ TerminalReply(r).ok = "false" =>
                   /\ ComplexRequest(r).state = "rejected"
                   /\ ComplexRequest(r).value = FAILED \o Concat(recv[r])

\* the stage of an identifier in the registry: 0 absent (never registered),
\* 1 pending (registered, no chunk yet), 2 receiving, 3 removed
Stage(id) ==
    CASE id \in DOMAIN callbacks ->
            IF first_response[callbacks[id].req] = <<>> THEN 1 ELSE 2
      [] \E r \in 1..Len(requests) : requests[r].id = id /\ removed[r] > 0 -> 3
      [] OTHER -> 0

\* C21: every request identifier goes from absent to pending to receiving to
\* removed and never back: once removed it is never registered again.
C21_Lifecycle ==
    [][\A id \in Ids : Stage(id)' >= Stage(id)]_vars

\* C22: exitSession and exitApplication are fire-and-forget: each calls the
\* transport's sendMessage exactly once and leaves the registry as it was, with
\* no entry under the envelope's id and none under 'progress' added.
C22_ExitFireAndForget ==
    [][lastOp'.op \in ExitCalls => (lastOp'.out = 1 /\ callbacks' = callbacks)]_vars

\* the promise BasicMessenger.booleanRequest returns for the invoke of request
\* r: it resolves when the request's promise resolves, with the comparison of
\* the message to 'true' in the legacy build and with true in both branches
\* of the current one; a rejection is passed on
BooleanRequest(r) ==
    LET p == ComplexRequest(r)
    IN  IF p.state = "resolved"
        THEN [state |-> "resolved",
              value |-> IF p.value = "true"
                        THEN "true"
                        ELSE IF build = "legacy" THEN "false" ELSE "true"]
        ELSE p

\* C23: once the terminal reply of a request was dispatched, booleanRequest
\* resolves true when the request resolved with the payload 'true', false when
\* it resolved with any other payload, and rejects only when the request
\* rejects.
C23_BooleanRequest ==
    \A r \in Reqs :
        (Invoked(r) /\ ~SendThrew(r) /\ TerminalNoted(r)) =>
            /\ ComplexRequest(r).state = "resolved" =>
                   BooleanRequest(r) =
                       [state |-> "resolved",
                        value |-> IF ComplexRequest(r).value = "true" THEN "true" ELSE "false"]
            /\ BooleanRequest(r).state = "rejected" => ComplexRequest(r).state = "rejected"

\* C24: in every state where a request is in flight a callback is registered
\* under 'progress' (the supplied one or a no-op), and no progress event makes
\* the handler throw.
C24_ProgressAlwaysRegistered ==
    /\ InFlight # {} => PROGRESS \in DOMAIN callbacks
    /\ ~uncaught

\* the event at the head of the channel is an envelope bearing the id of a
\* request whose per-id entry was removed
LateChunkAtHead ==
    /\ channel # <<>>
    /\ Head(channel).kind = "json"
    /\ \E r \in 1..Len(requests) : Head(channel).id = requests[r].id /\ removed[r] > 0

\* C25: on a terminal chunk the per-id entry and 'progress' are removed before
\* the promise is resolved: at every call of resolve the registry holds neither;
\* the entries of an invoke issued right after a request terminated are
\* registered after it, and no later chunk bearing the finished request's id
\* changes the registry.
C25_RemoveBeforeResolve ==
    [][/\ \A x \in lastOp'.res :
              requests'[x.req].id \notin x.keys /\ PROGRESS \notin x.keys
       /\ ((\E r \in Reqs : JustTerminated(r)) /\ lastOp'.op = "invokeSent") =>
              /\ requests'[lastOp'.req].id \in DOMAIN callbacks'
              /\ requests'[lastOp'.req].cb # "none" =>
                     (PROGRESS \in DOMAIN callbacks' /\ callbacks'[PROGRESS].req = lastOp'.req)
       /\ (IsDeliver /\ LateChunkAtHead) => callbacks' = callbacks]_vars

\* a late chunk bearing the id of the first request, resolved after two
\* chunks, was dispatched while the second request, invoked with a progress
\* callback after the first terminated, is pending with both its entries
C25_Witness ==
    /\ Len(requests) = 2
    /\ settled[1] = "resolved" /\ Len(recv[1]) = 2
    /\ calls[2] = 0 /\ settled[2] = "pending"
    /\ requests[2].id \in DOMAIN callbacks
    /\ OwnsProgress(2)
    /\ lastOp.op = "dispatch" /\ lastOp.data.kind = "json" /\ lastOp.data.id = requests[1].id
    /\ lastOp.ran = {}

\* the send of request r threw and no terminal chunk bearing its id has been
\* dispatched
SendFailedOpen(r) == SendThrew(r) /\ ~TerminalNoted(r)

C27_RegisterBeforeSend ==
    lastOp.op \in {"invokeSyncReply", "invokeSyncReplyThrew"} =>
        /\ Ran("completion", lastOp.req) \in lastOp.ran
        /\ settled[lastOp.req] = "resolved"
        /\ payload[lastOp.req][1].id = requests[lastOp.req].id
        /\ payload[lastOp.req][1].message = recv[lastOp.req][1].message
        /\ requests[lastOp.req].id \notin DOMAIN callbacks

\* an invoke with a progress callback was answered from inside sendMessage
\* while another request that has received a chunk is pending
C27_Witness ==
    /\ lastOp.op = "invokeSyncReply"
    /\ requests[lastOp.req].cb # "none"
    /\ settled[lastOp.req] = "resolved"
    /\ \E r \in InFlight : first_response[r] # <<>>

C30_Isolation ==
    [][/\ \A r \in Reqs : settled'[r] = "resolved" => ResolvedWithConcat(r)'
       /\ \A r \in Reqs : \A q \in Reqs \ {r} :
              (Invoked(q) /\ IsDeliver /\ Ran("completion", r) \in lastOp'.ran
                 /\ lastOp'.data.more # "true") =>
                  /\ settled'[q] = settled[q]
                  /\ payload'[q] = payload[q]
                  /\ first_response'[q] = first_response[q]
                  /\ removed'[q] = removed[q]
                  /\ requests[q].id \in DOMAIN callbacks =>
                         (requests[q].id \in DOMAIN callbacks'
                            /\ callbacks'[requests[q].id] = callbacks[requests[q].id])]_vars

\* the second of two chunks of one request resolved it with 'abcd' while the
\* other request, which received a chunk in between, is pending and registered
C30_Witness ==
    \E r, q \in Reqs :
        /\ r # q
        /\ lastOp.op = "dispatch" /\ JustTerminated(r)
        /\ settled[r] = "resolved"
        /\ Len(recv[r]) = 2 /\ payload[r][1].message = "abcd"
        /\ settled[q] = "pending" /\ Len(recv[q]) = 1 /\ recv[q][1].message = "cd"
        /\ requests[q].id \in DOMAIN callbacks

\* C31: the envelope a request resolved with has the id, ok and more of the
\* first chunk dispatched for it and the concatenation of the messages of all
\* its chunks; complexRequest resolves exactly when the ok of the first chunk
\* is true, whatever the ok of the terminal chunk.
C31_FirstChunkFields ==
    \A r \in Reqs :
        (Invoked(r) /\ settled[r] = "resolved") =>
            /\ payload[r][1].id = requests[r].id
            /\ payload[r][1].ok = recv[r][1].ok
            /\ payload[r][1].more = recv[r][1].more
            /\ payload[r][1].message = Concat(recv[r])
            /\ ComplexRequest(r).state = "resolved" <=> recv[r][1].ok = "true"

\* a request resolved after a first chunk with ok true and a terminal chunk
\* with ok false: complexRequest resolves
C31_Witness ==
    \E r \in Reqs :
        /\ Invoked(r) /\ settled[r] = "resolved"
        /\ Len(recv[r]) = 2
        /\ recv[r][1].ok = "true" /\ recv[r][2].ok = "false"
        /\ payload[r][1].more = "true"
        /\ ComplexRequest(r).state = "resolved"

\* request r was invoked with a send that returned, and while no terminal
\* chunk had reached it a later invoke registered under the same id
Superseded(r) ==
    /\ Invoked(r) /\ ~SendThrew(r) /\ removed[r] = 0
    /\ \E q \in 1..Len(requests) : q > r /\ requests[q].id = requests[r].id

\* the latest invoke with the id of request r
Latest(r) ==
    CHOOSE q \in 1..Len(requests) :
        /\ requests[q].id = requests[r].id
        /\ \A p \in 1..Len(requests) : requests[p].id = requests[r].id => p <= q

C33_DegradedInvoke ==
    ~nx =>
        /\ ~uncaught
        /\ \A r \in Reqs :
               Invoked(r) =>
                   /\ settled[r] = "pending"
                   /\ requests[r].id \in DOMAIN callbacks
                   /\ callbacks[requests[r].id].kind = "completion"
                   /\ requests[r].cb # "none" => PROGRESS \in DOMAIN callbacks

\* without window.nx, two invokes, the first with a progress callback, are
\* pending and registered
C33_Witness ==
    /\ ~nx
    /\ Len(requests) = 2
    /\ requests[1].cb # "none"
    /\ settled[1] = "pending" /\ settled[2] = "pending"
    /\ {requests[1].id, requests[2].id, PROGRESS} \subseteq DOMAIN callbacks

\* this step is an invoke whose send failed
IsFailedSend == lastOp'.req # 0 /\ sent'[lastOp'.req] = 0

\* this step dispatched a terminal chunk to a completion callback
IsTerminalDispatch ==
    /\ lastOp'.data.kind = "json"
    /\ lastOp'.data.more # "true"
    /\ \E r \in Reqs : Ran("completion", r) \in lastOp'.ran

\* C34: the dispatch of a chunk with more = true or of a 'progress' event
\* leaves the key set of the registry unchanged and settles no promise; a key
\* leaves the registry only in a step that dispatches a terminal chunk to a
\* completion callback or in an invoke whose send failed.
C34_OnlyTerminalRemoves ==
    [][/\ (IsDeliver /\ Head(channel).kind = "json"
             /\ (Head(channel).more = "true" \/ Head(channel).id = PROGRESS)) =>
              (DOMAIN callbacks' = DOMAIN callbacks /\ settled' = settled)
       /\ ~(DOMAIN callbacks \subseteq DOMAIN callbacks') =>
              (IsTerminalDispatch \/ IsFailedSend)]_vars

\* a chunk with more = true was dispatched to a completion callback while a
\* progress callback is registered and another request is pending
C34_Witness ==
    \E r, q \in InFlight :
        /\ r # q
        /\ lastOp.op = "dispatch" /\ lastOp.data.more = "true"
        /\ Ran("completion", r) \in lastOp.ran
        /\ PROGRESS \in DOMAIN callbacks

====
